---- MODULE Spec2Model ----
(***************************************************************************)
(* State-machine model of the Kimiollo React front end: the Auth Context   *)
(* (AuthContext.js), the route guard (App.js) and the feature views         *)
(* (Dashboard, ProposalUpload, ProposalAnalysis, FundingRecommendations,    *)
(* BusinessPlanGenerator).  One action is one run-to-completion block of    *)
(* JavaScript (an event handler up to its first await, or the continuation  *)
(* of an await); React state written in a block is committed with it.       *)
(***************************************************************************)
EXTENDS Integers, Sequences, FiniteSets, Bags, TLC

VARIABLES
  token,      \* AuthProvider state `token`
  user,       \* AuthProvider state `user`
  loading,    \* AuthProvider state `loading`
  cookie,     \* the browser cookie named 'token'
  header,     \* axios.defaults.headers.common['Authorization']
  pending,    \* login / register requests in flight: [login |-> n, register |-> n]
  route,      \* the router's location
  upload,     \* ProposalUpload's state (the mounted instance)
  dashboard,  \* Dashboard's state
  analysis,   \* ProposalAnalysis's state
  funding,    \* FundingRecommendations's state
  generator,  \* BusinessPlanGenerator's state
  inflight,   \* bag of feature-view requests awaiting their response
  redirects,  \* pending setTimeout(navigate('/analyze/<id>'), 1500) callbacks
  lastOp      \* the block that ran last, with what it returned and did

session == <<token, user, cookie, header>>
views == [upload |-> upload, dashboard |-> dashboard, analysis |-> analysis,
          funding |-> funding, generator |-> generator]
viewVars == <<upload, dashboard, analysis, funding, generator>>
vars == <<token, user, loading, cookie, header, pending, route, viewVars,
          inflight, redirects, lastOp>>

----
\* JavaScript values

Null == "<null>"
Undefined == "<undefined>"
Absent == "<absent>"          \* no cookie / no header entry

\* Tokens the backend issues.
BackendTokens == {"T1", "T2"}

\* Bound: login (and register) requests that may be in flight together.
MaxPending == 1

\* `${v}` / String(v): how a template literal and js-cookie render a value.
ToStr(v) == IF v = Undefined THEN "undefined" ELSE IF v = Null THEN "null" ELSE v

\* `Bearer ${t}`
Bearer(t) == "Bearer " \o ToStr(t)

\* !!v
Truthy(v) == v \notin {Null, Undefined, ""}

\* v != null (neither null nor undefined): a value is held
Present(v) == v \notin {Null, Undefined}

\* Cookies.get('token'): the stored string, or undefined
CookiesGet == IF cookie = Absent THEN Undefined ELSE cookie

\* isAuthenticated derived from the user instead of the token
isAuthenticated_FromUser == Truthy(user)

\* isAuthenticated: !!token
isAuthenticated == Truthy(token)

----
\* Backend outcomes of POST /login and POST /register, as axios delivers them.
\*   status 0   : no response (network failure); error.response is undefined
\*   hasData    : response.data is an object (FALSE: null / empty body)
AuthBody(t, u, e) == [access_token |-> t, user |-> u, error |-> e]

AuthSuccessResponses ==
  { [status |-> 200, hasData |-> TRUE, data |-> AuthBody(t, "U1", Undefined)] :
      t \in BackendTokens \cup {Undefined} }
  \cup { [status |-> 200, hasData |-> TRUE,
          data |-> AuthBody(Undefined, Undefined, Undefined)],
         [status |-> 200, hasData |-> FALSE,
          data |-> AuthBody(Undefined, Undefined, Undefined)] }

AuthErrorResponses ==
  { [status |-> 401, hasData |-> TRUE, data |-> AuthBody(Undefined, Undefined, e)] :
      e \in {"", "Invalid credentials"} }
  \cup { [status |-> s, hasData |-> FALSE, data |-> AuthBody(Undefined, Undefined, Undefined)] :
      s \in {0, 500} }

AuthResponses == AuthSuccessResponses \cup AuthErrorResponses

\* axios resolves on 2xx and rejects otherwise.
Resolves(resp) == resp.status = 200

\* the error field passed on without the `|| fallback`
ErrorOr_NoFallback(resp, fallback) ==
  IF resp.status # 0 /\ resp.hasData THEN resp.data.error ELSE Undefined

\* error.response?.data?.error || fallback
ErrorOr(resp, fallback) ==
  IF resp.status # 0 /\ resp.hasData /\ Truthy(resp.data.error)
  THEN resp.data.error ELSE fallback

\* The try block of login/register reaches its return: the request resolved
\* and destructuring response.data did not throw.
AuthAccepted(resp) == Resolves(resp) /\ resp.hasData

\* What login/register return.
AuthResult(resp, fallback) ==
  IF AuthAccepted(resp)
  THEN [success |-> TRUE, user |-> resp.data.user, error |-> Undefined]
  ELSE [success |-> FALSE, user |-> Undefined, error |-> ErrorOr(resp, fallback)]

\* What the last block did: its name, the response it handled, the side
\* effects it made in order (toast / logout / navigate), and what
\* login/register returned.  status is -1 for a block that handled no response;
\* was is the in-memory token the block started with.
Rec(op, status, err, fx, res) ==
  [op |-> op, status |-> status, err |-> err, fx |-> fx, was |-> token,
   success |-> res.success, user |-> res.user, error |-> res.error]
NoResult == [success |-> FALSE, user |-> Undefined, error |-> Undefined]
Did(op, fx) == Rec(op, -1, Undefined, fx, NoResult)
Returned(op, resp, res) == Rec(op, resp.status, Undefined, <<>>, res)
Handled(call, resp, fx) == Rec(call, resp.status, resp.err, fx, NoResult)

----
\* Routing (App.js)

Routes == {"/login", "/register", "/dashboard", "/generate-plan",
           "/upload-proposal", "/analyze", "/funding"}
Protected == {"/dashboard", "/generate-plan", "/upload-proposal", "/analyze", "/funding"}

\* A ProtectedRoute that renders its children whatever the token
ProtectedRoute_AlwaysChildren(t, r) == r

\* ProtectedRoute: token ? children : <Navigate to="/login" />
ProtectedRoute(t, r) == IF r \in Protected /\ ~Truthy(t) THEN "/login" ELSE r

----
\* Feature-view requests

\* Bound: feature-view requests and redirect timers pending together.
MaxInFlight == 2
\* Bound: progress intervals left running by failed uploads.
MaxOrphans == 1

Statuses == {"processing", "analyzed", "completed"}
\* Bodies of GET /user-proposals: the statuses of the user's proposals, by position.
ProposalLists == {<<>>, <<"processing">>, <<"analyzed">>, <<"completed">>,
                  <<"analyzed", "processing">>}

\* A request a view has sent: the handler that awaits it, the token its closure
\* captured, and whether the component instance that sent it is still mounted.
Req(call, tok) == [call |-> call, tok |-> tok, live |-> TRUE]

\* Outcomes of a feature-view request as axios delivers them: status 0 is a
\* network failure (no error.response); err is error.response?.data?.error.
ErrorResponses ==
  { [status |-> 401, err |-> e, proposals |-> <<>>] : e \in {Undefined, "invalid_token"} }
  \cup { [status |-> 500, err |-> "Server error", proposals |-> <<>>],
         [status |-> 0, err |-> Undefined, proposals |-> <<>>] }
OkResponses == { [status |-> 200, err |-> Undefined, proposals |-> <<>>] }
ListResponses == { [status |-> 200, err |-> Undefined, proposals |-> l] : l \in ProposalLists }

\* The requests of an unmounted instance: their handlers still run, their
\* setState calls do nothing.
Orphaned(reqs) ==
  LET D == { [x EXCEPT !.live = FALSE] : x \in DOMAIN reqs } IN
  [r \in D |-> CopiesIn(r, reqs) + CopiesIn([r EXCEPT !.live = TRUE], reqs)]

\* The 401 branch shared by the views' catch blocks:
\*   toast.error('Session expired...'); logout(); navigate('/login'); return
SessionExpiredFx == <<"toast.error", "logout", "navigate:/login">>

----
\* View state (useState initial values)

UploadInit == [uploading |-> FALSE, uploadProgress |-> 0, uploadedFile |-> Null,
               timer |-> FALSE, orphans |-> 0, sent |-> 0]
DashboardInit == [proposals |-> <<>>, loading |-> TRUE]
AnalysisInit == [proposal |-> Null, analysis |-> Null, businessPlanContent |-> Null,
                 loading |-> TRUE, analyzing |-> FALSE]
FundingInit == [recommendations |-> <<>>, loading |-> TRUE, searching |-> FALSE,
                searchResults |-> <<>>, proposalData |-> Null]
Fields == {"business_type", "industry", "business_description",
           "target_market", "funding_requirements"}
GeneratorInit == [activeStep |-> 0, loading |-> FALSE, formData |-> [f \in Fields |-> ""]]
ViewsInit == [upload |-> UploadInit, dashboard |-> DashboardInit, analysis |-> AnalysisInit,
              funding |-> FundingInit, generator |-> GeneratorInit]

\* The requests the effects of the view at r send when it mounts, or when a
\* dependency (token) changed:  Dashboard useEffect [token], ProposalAnalysis
\* useEffect [id, token] (both only with a token), FundingRecommendations
\* useEffect [id].
EffectCalls(r, moved) ==
  IF r = "/dashboard" /\ Truthy(token') /\ (moved \/ token' # token)
  THEN {"Dashboard.fetchProposals"}
  ELSE IF r = "/analyze" /\ Truthy(token') /\ (moved \/ token' # token)
  THEN {"ProposalAnalysis.fetchProposalData"}
  ELSE IF r = "/funding" /\ moved
  THEN {"FundingRecommendations.fetchRecommendations"}
  ELSE {}

\* The render that follows a block: the route guard is applied to the target
\* location; a changed location unmounts the old view and mounts the new one
\* with fresh state; the mounted view's effects run.
Commit(target, v, reqs, rd) ==
  LET r == ProtectedRoute(token', target)
      moved == r # route
      kept == IF moved THEN Orphaned(reqs) ELSE reqs
      all == kept (+) SetToBag({ Req(c, token') : c \in EffectCalls(r, moved) })
  IN /\ BagCardinality(all) + rd <= MaxInFlight
     /\ route' = r
     /\ upload' = IF moved THEN UploadInit ELSE v.upload
     /\ dashboard' = IF moved THEN DashboardInit ELSE v.dashboard
     /\ analysis' = IF moved THEN AnalysisInit ELSE v.analysis
     /\ funding' = IF moved THEN FundingInit ELSE v.funding
     /\ generator' = IF moved THEN GeneratorInit ELSE v.generator
     /\ inflight' = all
     /\ redirects' = rd

Stay == Commit(route, views, inflight, redirects)

\* logout() without Cookies.remove('token')
LogoutEffect_KeepsCookie ==
  /\ header' = Absent
  /\ token' = Null
  /\ user' = Null
  /\ UNCHANGED cookie

\* logout() that rewrites the header from its closure's token instead of
\* deleting it
LogoutEffect_HeaderFromToken ==
  /\ cookie' = Absent
  /\ header' = Bearer(token)
  /\ token' = Null
  /\ user' = Null

\* logout()
LogoutEffect ==
  /\ cookie' = Absent
  /\ header' = Absent
  /\ token' = Null
  /\ user' = Null

----
\* Init: the page has loaded at some URL and rendered once (useState initial
\* values); no effect has run yet.  The cookie is whatever an earlier visit left.
Init ==
  /\ token = Null
  /\ user = Null
  /\ loading = TRUE
  /\ cookie \in {Absent} \cup BackendTokens
  /\ header = Absent
  /\ pending = [login |-> 0, register |-> 0]
  /\ route \in Routes
  /\ upload = UploadInit
  /\ dashboard = DashboardInit
  /\ analysis = AnalysisInit
  /\ funding = FundingInit
  /\ generator = GeneratorInit
  /\ inflight = EmptyBag
  /\ redirects = 0
  /\ lastOp = Did("init", <<>>)

\* The hydration effect with setLoading(false) moved inside `if (savedToken)`
Hydrate_LoadingOnlyWithToken ==
  /\ loading = TRUE
  /\ LET savedToken == CookiesGet IN
       IF Truthy(savedToken)
       THEN /\ token' = savedToken
            /\ header' = Bearer(savedToken)
            /\ loading' = FALSE
       ELSE UNCHANGED <<token, header, loading>>
  /\ route' = ProtectedRoute(token, route)
  /\ lastOp' = Did("hydrate", <<>>)
  /\ UNCHANGED <<user, cookie, pending, viewVars, inflight, redirects>>

\* The effects of the first commit, children first: a ProtectedRoute rendered
\* without a token navigates to /login, then AuthProvider's
\* useEffect(() => {...}, []) hydrates the session from the cookie.
Hydrate ==
  /\ loading = TRUE
  /\ LET savedToken == CookiesGet IN
       IF Truthy(savedToken)
       THEN /\ token' = savedToken
            /\ header' = Bearer(savedToken)
       ELSE UNCHANGED <<token, header>>
  /\ loading' = FALSE
  /\ route' = ProtectedRoute(token, route)
  /\ lastOp' = Did("hydrate", <<>>)
  /\ UNCHANGED <<user, cookie, pending, viewVars, inflight, redirects>>

\* The browser loads the page again at URL r: memory is gone, the cookie stays.
Reload(r) ==
  /\ token' = Null /\ user' = Null /\ loading' = TRUE /\ header' = Absent
  /\ pending' = [login |-> 0, register |-> 0]
  /\ route' = r
  /\ upload' = UploadInit /\ dashboard' = DashboardInit /\ analysis' = AnalysisInit
  /\ funding' = FundingInit /\ generator' = GeneratorInit
  /\ inflight' = EmptyBag /\ redirects' = 0
  /\ lastOp' = [Did("init", <<>>) EXCEPT !.was = Null]
  /\ UNCHANGED cookie

\* login(email, password) up to its await: the POST is sent.
LoginCall ==
  /\ loading = FALSE
  /\ pending.login + pending.register < MaxPending
  /\ pending' = [pending EXCEPT !.login = @ + 1]
  /\ lastOp' = Did("loginCall", <<>>)
  /\ UNCHANGED <<token, user, loading, cookie, header, route, viewVars,
                 inflight, redirects>>

\* login/register without the axios.defaults.headers.common assignment
AuthSettle_NoHeader(resp) ==
  IF AuthAccepted(resp)
  THEN /\ cookie' = ToStr(resp.data.access_token)
       /\ token' = resp.data.access_token
       /\ user' = resp.data.user
       /\ UNCHANGED header
  ELSE UNCHANGED <<token, user, cookie, header>>

\* login/register whose catch block also drops the session
AuthSettle_ClearsOnFailure(resp) ==
  IF AuthAccepted(resp)
  THEN /\ cookie' = ToStr(resp.data.access_token)
       /\ header' = Bearer(resp.data.access_token)
       /\ token' = resp.data.access_token
       /\ user' = resp.data.user
  ELSE /\ cookie' = Absent
       /\ header' = Absent
       /\ token' = Null
       /\ user' = Null

\* The continuation of login after its await, with the backend's outcome: the
\* try block from the destructuring on, or the catch block.
AuthSettle(resp) ==
  IF AuthAccepted(resp)
  THEN /\ cookie' = ToStr(resp.data.access_token)
       /\ header' = Bearer(resp.data.access_token)
       /\ token' = resp.data.access_token
       /\ user' = resp.data.user
  ELSE UNCHANGED <<token, user, cookie, header>>

LoginResponse(resp) ==
  /\ pending.login > 0
  /\ pending' = [pending EXCEPT !.login = @ - 1]
  /\ AuthSettle(resp)
  /\ Stay
  /\ lastOp' = Returned("login", resp, AuthResult(resp, "Login failed"))
  /\ UNCHANGED loading

RegisterCall ==
  /\ loading = FALSE
  /\ pending.login + pending.register < MaxPending
  /\ pending' = [pending EXCEPT !.register = @ + 1]
  /\ lastOp' = Did("registerCall", <<>>)
  /\ UNCHANGED <<token, user, loading, cookie, header, route, viewVars,
                 inflight, redirects>>

\* register without Cookies.set('token', access_token, ...)
RegisterSettle_NoCookie(resp) ==
  IF AuthAccepted(resp)
  THEN /\ header' = Bearer(resp.data.access_token)
       /\ token' = resp.data.access_token
       /\ user' = resp.data.user
       /\ UNCHANGED cookie
  ELSE UNCHANGED <<token, user, cookie, header>>

\* The continuation of register after its await: the try block from the
\* destructuring on, or the catch block.
RegisterSettle(resp) ==
  IF AuthAccepted(resp)
  THEN /\ cookie' = ToStr(resp.data.access_token)
       /\ header' = Bearer(resp.data.access_token)
       /\ token' = resp.data.access_token
       /\ user' = resp.data.user
  ELSE UNCHANGED <<token, user, cookie, header>>

RegisterResponse(resp) ==
  /\ pending.register > 0
  /\ pending' = [pending EXCEPT !.register = @ - 1]
  /\ RegisterSettle(resp)
  /\ Stay
  /\ lastOp' = Returned("register", resp, AuthResult(resp, "Registration failed"))
  /\ UNCHANGED loading

\* Navbar.handleLogout: logout(); handleClose(); navigate('/login')
NavbarLogout ==
  /\ loading = FALSE
  /\ isAuthenticated
  /\ LogoutEffect
  /\ Commit("/login", views, inflight, redirects)
  /\ lastOp' = Did("logout", <<"logout", "navigate:/login">>)
  /\ UNCHANGED <<loading, pending>>

----
\* Navigation by the user

\* The Funding button's disabled test written with || for &&
DashboardFundingEnabled_Or(status) == ~(status # "analyzed" \/ status # "completed")

\* Dashboard "Funding" button: disabled={status !== 'analyzed' && status !== 'completed'}
DashboardFundingEnabled(status) == ~(status # "analyzed" /\ status # "completed")
\* ProposalAnalysis: {proposal.status === 'analyzed' && <Button>View Funding Recommendations}
AnalysisFundingOffered(status) == status = "analyzed"
\* ProposalAnalysis: {proposal.status !== 'analyzed' && <Button>Analyze Proposal}
AnalyzeOffered(status) == status # "analyzed"

\* The locations the rendered buttons and links lead to.
NavTargets ==
  {"/dashboard"}
  \cup (IF isAuthenticated THEN {"/dashboard", "/generate-plan", "/upload-proposal"}
        ELSE {"/login", "/register"})
  \cup (IF route = "/dashboard" THEN {"/generate-plan", "/upload-proposal"} ELSE {})
  \cup (IF route = "/dashboard" /\ ~dashboard.loading /\ Len(dashboard.proposals) > 0
        THEN {"/analyze"} ELSE {})
  \cup (IF /\ route = "/dashboard" /\ ~dashboard.loading
           /\ \E i \in 1..Len(dashboard.proposals) :
                DashboardFundingEnabled(dashboard.proposals[i])
        THEN {"/funding"} ELSE {})
  \cup (IF route = "/analyze" /\ ~analysis.loading /\ analysis.proposal # Null
        THEN {"/dashboard"} ELSE {})
  \cup (IF /\ route = "/analyze" /\ ~analysis.loading /\ analysis.proposal # Null
           /\ AnalysisFundingOffered(analysis.proposal)
        THEN {"/funding"} ELSE {})
  \cup (IF route = "/funding" /\ ~funding.loading THEN {"/dashboard"} ELSE {})

NavFx(r) == "navigate:" \o r

\* onClick={() => navigate(r)}
UserNavigate(r) ==
  /\ loading = FALSE
  /\ r \in NavTargets /\ r # route
  /\ UNCHANGED <<session, loading, pending>>
  /\ Commit(r, views, inflight, redirects)
  /\ lastOp' = Did("navigate", <<NavFx(r)>>)

----
\* A handler's continuation after its await

\* Where the block's last navigate() call leads; the current route when it
\* makes none.
RECURSIVE Target(_)
Target(fx) ==
  IF fx = <<>> THEN route
  ELSE LET e == fx[Len(fx)] IN
       IF \E r \in Routes : e = NavFx(r)
       THEN CHOOSE r \in Routes : e = NavFx(r)
       ELSE Target(SubSeq(fx, 1, Len(fx) - 1))

Includes(fx, e) == \E i \in 1..Len(fx) : fx[i] = e

\* The continuation of request req on outcome resp: it makes the side effects
\* fx in order (logout() among them clears the session), leaves its view in
\* state v (setState reaches only a mounted instance), has sent the requests
\* `sent` and left rd redirect timers pending.
Settle(req, resp, fx, v, sent, rd) ==
  /\ BagIn(req, inflight)
  /\ IF Includes(fx, "logout") THEN LogoutEffect ELSE UNCHANGED session
  /\ Commit(Target(fx), IF req.live THEN v ELSE views,
            (inflight (-) SetToBag({req})) (+) SetToBag(sent), rd)
  /\ lastOp' = Handled(req.call, resp, fx)
  /\ UNCHANGED <<loading, pending>>

\* A request sent from the same closure as req.
Chained(req, call) == [req EXCEPT !.call = call]

\* A click handler's first block: if (!token) {toast.error(...); return} else send.
\* fxNoToken are the effects of the !token branch, v / vNoToken the view after.
Send(call, v, vNoToken, fxNoToken) ==
  /\ loading = FALSE
  /\ UNCHANGED <<session, loading, pending>>
  /\ IF Truthy(token)
     THEN /\ Commit(route, v, inflight (+) SetToBag({Req(call, token)}), redirects)
          /\ lastOp' = Did(call, <<>>)
     ELSE /\ Commit(Target(fxNoToken), vNoToken, inflight, redirects)
          /\ lastOp' = Did(call, fxNoToken)

----
\* Dashboard

\* fetchProposals: catch { if (401) {...; return} toast.error(...) }
fetchProposalsFx(resp) ==
  IF resp.status = 200 THEN <<>>
  ELSE IF resp.status = 401 THEN SessionExpiredFx
  ELSE <<"toast.error">>

\* fetchProposals after its await; finally { setLoading(false) }
FetchProposalsResponse(req, resp) ==
  /\ req.call = "Dashboard.fetchProposals"
  /\ Settle(req, resp, fetchProposalsFx(resp),
            [views EXCEPT !.dashboard =
               [proposals |-> IF resp.status = 200 THEN resp.proposals ELSE @.proposals,
                loading |-> FALSE]],
            {}, redirects)

\* Dashboard "Download PDF" button: downloadProposalPDF up to its await.
DashboardDownload ==
  /\ route = "/dashboard" /\ ~dashboard.loading /\ Len(dashboard.proposals) > 0
  /\ Send("Dashboard.downloadProposalPDF", views, views, <<"toast.error">>)

\* downloadProposalPDF (Dashboard and ProposalAnalysis) after its await
downloadFx(resp) ==
  IF resp.status = 200 THEN <<"toast.success">>
  ELSE IF resp.status = 401 THEN SessionExpiredFx
  ELSE <<"toast.error">>

DashboardDownloadResponse(req, resp) ==
  /\ req.call = "Dashboard.downloadProposalPDF"
  /\ Settle(req, resp, downloadFx(resp), views, {}, redirects)

----
\* ProposalUpload

\* Percentages Math.round(loaded * 100 / total) reports while the body is sent.
TransportPercents == {25, 50, 100}

\* onDrop up to its await, a file having been accepted.  The dropzone is
\* disabled while uploading.  Without a token the try block throws before the
\* request and the catch block runs; the interval it started is not cleared.
OnDrop ==
  /\ loading = FALSE
  /\ route = "/upload-proposal" /\ ~upload.uploading
  /\ upload.orphans < MaxOrphans
  /\ UNCHANGED <<token, user, cookie, loading, pending>>
  /\ IF Truthy(token)
     THEN /\ header' = Bearer(token)
          /\ Commit(route,
                    [views EXCEPT !.upload =
                       [@ EXCEPT !.uploading = TRUE, !.uploadProgress = 0,
                                 !.uploadedFile = "file", !.timer = TRUE, !.sent = 0]],
                    inflight (+) SetToBag({Req("ProposalUpload.onDrop", token)}), redirects)
          /\ lastOp' = Did("ProposalUpload.onDrop", <<>>)
     ELSE /\ UNCHANGED header
          /\ Commit(route,
                    [views EXCEPT !.upload =
                       [@ EXCEPT !.uploading = FALSE, !.uploadProgress = 0,
                                 !.uploadedFile = Null, !.orphans = @ + 1]],
                    inflight, redirects)
          /\ lastOp' = Did("ProposalUpload.onDrop", <<"toast.error">>)

\* The updater the 200 ms interval runs:
\*   prev >= 90 ? (clearInterval(progressInterval), 90) : prev + 10
progressStep(prev) == IF prev >= 90 THEN 90 ELSE prev + 10
progressStops(prev) == prev >= 90

\* A tick of the running upload's progressInterval.
ProgressTick ==
  /\ route = "/upload-proposal" /\ upload.timer
  /\ upload' = [upload EXCEPT !.uploadProgress = progressStep(@),
                              !.timer = ~progressStops(upload.uploadProgress)]
  /\ lastOp' = Did("progressInterval", <<>>)
  /\ UNCHANGED <<session, loading, pending, route, dashboard, analysis, funding,
                 generator, inflight, redirects>>

\* A tick of an interval a failed upload left running.
OrphanTick ==
  /\ route = "/upload-proposal" /\ upload.orphans > 0
  /\ upload' = [upload EXCEPT !.uploadProgress = progressStep(@),
                              !.orphans = IF progressStops(upload.uploadProgress)
                                          THEN @ - 1 ELSE @]
  /\ lastOp' = Did("progressInterval", <<>>)
  /\ UNCHANGED <<session, loading, pending, route, dashboard, analysis, funding,
                 generator, inflight, redirects>>

\* onUploadProgress: setUploadProgress(Math.round(loaded * 100 / total)); the
\* transport reports a growing `loaded` while the mounted view's request is out.
OnUploadProgress(p) ==
  /\ route = "/upload-proposal"
  /\ \E req \in BagToSet(inflight) : req.call = "ProposalUpload.onDrop" /\ req.live
  /\ p >= upload.sent
  /\ upload' = [upload EXCEPT !.uploadProgress = p, !.sent = p]
  /\ lastOp' = Did("onUploadProgress", <<>>)
  /\ UNCHANGED <<session, loading, pending, route, dashboard, analysis, funding,
                 generator, inflight, redirects>>

\* onDrop's catch: the session-expired branch needs status 401 and the body's
\* error to be 'invalid_token'.
onDropFx(resp) ==
  IF resp.status = 200 THEN <<"toast.success">>
  ELSE IF resp.status = 401 /\ resp.err = "invalid_token" THEN SessionExpiredFx
  ELSE <<"toast.error">>

\* onDrop after its await.
\*   success: clearInterval; setUploadProgress(100); toast; setTimeout(navigate, 1500)
\*   session expired: toast; logout(); navigate('/login'); return
\*   failure: toast; setUploading(false); setUploadProgress(0); setUploadedFile(null)
OnDropResponse(req, resp) ==
  /\ req.call = "ProposalUpload.onDrop"
  /\ Settle(req, resp, onDropFx(resp),
            [views EXCEPT !.upload =
               IF resp.status = 200
               THEN [@ EXCEPT !.timer = FALSE, !.uploadProgress = 100]
               ELSE IF onDropFx(resp) = SessionExpiredFx THEN @
               ELSE [@ EXCEPT !.uploading = FALSE, !.uploadProgress = 0,
                              !.uploadedFile = Null, !.timer = FALSE,
                              !.orphans = IF upload.timer THEN @ + 1 ELSE @]],
            {}, IF resp.status = 200 THEN redirects + 1 ELSE redirects)

\* The 1500 ms timeout fires: navigate(`/analyze/${response.data.proposal_id}`)
RedirectFire ==
  /\ redirects > 0
  /\ UNCHANGED <<session, loading, pending>>
  /\ Commit("/analyze", views, inflight, redirects - 1)
  /\ lastOp' = Did("redirect", <<NavFx("/analyze")>>)

----
\* ProposalAnalysis

\* userProposals.find(p => p.id === parseInt(id)): the viewed proposal is the
\* first of the list when the list has one.
Found(l) == Len(l) > 0

\* fetchProposalData after its await.
\*   found: setProposal; setAnalysis when analyzed; fetchBusinessPlanContent()
\*   not found: toast.error; navigate('/dashboard')
\*   401: session expired;  other errors: toast.error; navigate('/dashboard')
\*   finally setLoading(false)
analysisFetchFx(resp) ==
  IF resp.status = 200
  THEN IF Found(resp.proposals) THEN <<>> ELSE <<"toast.error", NavFx("/dashboard")>>
  ELSE IF resp.status = 401 THEN SessionExpiredFx
  ELSE <<"toast.error", NavFx("/dashboard")>>

AnalysisFetchResponse(req, resp) ==
  /\ req.call = "ProposalAnalysis.fetchProposalData"
  /\ LET found == resp.status = 200 /\ Found(resp.proposals) IN
     Settle(req, resp, analysisFetchFx(resp),
            [views EXCEPT !.analysis =
               [@ EXCEPT !.proposal = IF found THEN resp.proposals[1] ELSE @,
                         !.analysis = IF found /\ resp.proposals[1] = "analyzed"
                                      THEN "summary" ELSE @,
                         !.loading = FALSE]],
            IF found THEN {Chained(req, "ProposalAnalysis.fetchBusinessPlanContent")} ELSE {},
            redirects)

\* fetchBusinessPlanContent after its await: catch (error) { console.log(...) }
contentFx(resp) == <<>>

ContentResponse(req, resp) ==
  /\ req.call = "ProposalAnalysis.fetchBusinessPlanContent"
  /\ Settle(req, resp, contentFx(resp),
            [views EXCEPT !.analysis.businessPlanContent =
               IF resp.status = 200 THEN "content" ELSE @],
            {}, redirects)

\* "Analyze Proposal" button (disabled={analyzing}): analyzeProposal up to its await.
Analyze ==
  /\ route = "/analyze" /\ ~analysis.loading /\ analysis.proposal # Null
  /\ AnalyzeOffered(analysis.proposal) /\ ~analysis.analyzing
  /\ Send("ProposalAnalysis.analyzeProposal",
          [views EXCEPT !.analysis.analyzing = TRUE], views, <<"toast.error">>)

\* analyzeProposal after its await.
\*   success: setAnalysis; toast.success; fetchProposalData()
\*   finally setAnalyzing(false)
analyzeFx(resp) ==
  IF resp.status = 200 THEN <<"toast.success">>
  ELSE IF resp.status = 401 THEN SessionExpiredFx
  ELSE <<"toast.error">>

\* analyzeProposal with setAnalyzing(false) at the end of the try block
\* instead of in finally
AnalyzeResponse_NoFinally(req, resp) ==
  /\ req.call = "ProposalAnalysis.analyzeProposal"
  /\ Settle(req, resp, analyzeFx(resp),
            [views EXCEPT !.analysis =
               [@ EXCEPT !.analysis = IF resp.status = 200 THEN "summary" ELSE @,
                         !.analyzing = IF resp.status = 200 THEN FALSE ELSE @]],
            IF resp.status = 200
            THEN {Chained(req, "ProposalAnalysis.fetchProposalData")} ELSE {},
            redirects)

AnalyzeResponse(req, resp) ==
  /\ req.call = "ProposalAnalysis.analyzeProposal"
  /\ Settle(req, resp, analyzeFx(resp),
            [views EXCEPT !.analysis =
               [@ EXCEPT !.analysis = IF resp.status = 200 THEN "summary" ELSE @,
                         !.analyzing = FALSE]],
            IF resp.status = 200
            THEN {Chained(req, "ProposalAnalysis.fetchProposalData")} ELSE {},
            redirects)

\* "Download Business Proposal PDF" button: downloadProposalPDF up to its await.
AnalysisDownload ==
  /\ route = "/analyze" /\ ~analysis.loading /\ analysis.proposal # Null
  /\ Send("ProposalAnalysis.downloadProposalPDF", views, views, <<"toast.error">>)

AnalysisDownloadResponse(req, resp) ==
  /\ req.call = "ProposalAnalysis.downloadProposalPDF"
  /\ Settle(req, resp, downloadFx(resp), views, {}, redirects)

----
\* FundingRecommendations

\* fetchRecommendations after its first await.
\*   success: setRecommendations; await fetchProposalData()  (loading stays set)
\*   failure: 401 -> session expired, else toast.error; finally setLoading(false)
recommendationsFx(resp) ==
  IF resp.status = 200 THEN <<>>
  ELSE IF resp.status = 401 THEN SessionExpiredFx
  ELSE <<"toast.error">>

RecommendationsResponse(req, resp) ==
  /\ req.call = "FundingRecommendations.fetchRecommendations"
  /\ Settle(req, resp, recommendationsFx(resp),
            [views EXCEPT !.funding =
               IF resp.status = 200 THEN [@ EXCEPT !.recommendations = <<"funder">>]
               ELSE [@ EXCEPT !.loading = FALSE]],
            IF resp.status = 200
            THEN {Chained(req, "FundingRecommendations.fetchProposalData")} ELSE {},
            redirects)

\* fetchProposalData after its await: catch (error) { console.log(...) }; then
\* fetchRecommendations resumes: finally { setLoading(false) }
fundingProposalFx(resp) == <<>>

FundingProposalResponse(req, resp) ==
  /\ req.call = "FundingRecommendations.fetchProposalData"
  /\ Settle(req, resp, fundingProposalFx(resp),
            [views EXCEPT !.funding =
               [@ EXCEPT !.proposalData = IF resp.status = 200 /\ Found(resp.proposals)
                                          THEN resp.proposals[1] ELSE @,
                         !.loading = FALSE]],
            {}, redirects)

\* The Search button without disabled={searching}
Search_NotDisabled ==
  /\ route = "/funding" /\ ~funding.loading
  /\ Send("FundingRecommendations.searchFundersRealtime",
          [views EXCEPT !.funding.searching = TRUE], views,
          <<"toast.error", NavFx("/login")>>)

\* "Search Real-time Funders" button (disabled={searching}): searchFundersRealtime
\* up to its await.
Search ==
  /\ route = "/funding" /\ ~funding.loading /\ ~funding.searching
  /\ Send("FundingRecommendations.searchFundersRealtime",
          [views EXCEPT !.funding.searching = TRUE], views,
          <<"toast.error", NavFx("/login")>>)

\* searchFundersRealtime after its await; finally setSearching(false)
searchFx(resp) ==
  IF resp.status = 200 THEN <<"toast.success">>
  ELSE IF resp.status = 401 THEN SessionExpiredFx
  ELSE <<"toast.error">>

SearchResponse(req, resp) ==
  /\ req.call = "FundingRecommendations.searchFundersRealtime"
  /\ Settle(req, resp, searchFx(resp),
            [views EXCEPT !.funding =
               [@ EXCEPT !.searchResults = IF resp.status = 200 THEN <<"funder">> ELSE @,
                         !.searching = FALSE]],
            {}, redirects)

----
\* BusinessPlanGenerator

\* The fields getStepContent(step) renders for editing.
StepFields(step) ==
  IF step = 0 THEN {"business_type", "industry", "business_description"}
  ELSE IF step = 1 THEN {"target_market", "funding_requirements"}
  ELSE {}
\* Select fields offer only their options; text fields may be emptied again.
FieldValues(f) == IF f \in {"business_type", "industry"} THEN {"x"} ELSE {"", "x"}

\* handleChange(name, value)
HandleChange(f, value) ==
  /\ route = "/generate-plan"
  /\ f \in StepFields(generator.activeStep) /\ value \in FieldValues(f)
  /\ generator.formData[f] # value
  /\ generator' = [generator EXCEPT !.formData[f] = value]
  /\ lastOp' = Did("handleChange", <<>>)
  /\ UNCHANGED <<session, loading, pending, route, upload, dashboard, analysis,
                 funding, inflight, redirects>>

\* isStepValid with `case 1: return true`
isStepValid_StepOneUnchecked ==
  IF generator.activeStep = 0
  THEN /\ Truthy(generator.formData["business_type"])
       /\ Truthy(generator.formData["industry"])
       /\ Truthy(generator.formData["business_description"])
  ELSE generator.activeStep \in {1, 2}

\* isStepValid()
isStepValid ==
  IF generator.activeStep = 0
  THEN /\ Truthy(generator.formData["business_type"])
       /\ Truthy(generator.formData["industry"])
       /\ Truthy(generator.formData["business_description"])
  ELSE IF generator.activeStep = 1
  THEN /\ Truthy(generator.formData["target_market"])
       /\ Truthy(generator.formData["funding_requirements"])
  ELSE generator.activeStep = 2

\* steps.length - 1
LastStep == 2

\* "Next" button (shown before the last step, disabled={!isStepValid()}): handleNext
HandleNext ==
  /\ route = "/generate-plan"
  /\ generator.activeStep # LastStep /\ isStepValid
  /\ generator' = [generator EXCEPT !.activeStep = @ + 1]
  /\ lastOp' = Did("handleNext", <<>>)
  /\ UNCHANGED <<session, loading, pending, route, upload, dashboard, analysis,
                 funding, inflight, redirects>>

\* "Back" button (disabled={activeStep === 0}): handleBack
HandleBack ==
  /\ route = "/generate-plan"
  /\ generator.activeStep # 0
  /\ generator' = [generator EXCEPT !.activeStep = @ - 1]
  /\ lastOp' = Did("handleBack", <<>>)
  /\ UNCHANGED <<session, loading, pending, route, upload, dashboard, analysis,
                 funding, inflight, redirects>>

\* "Generate Business Plan" button (shown on the last step,
\* disabled={!isStepValid() || loading}): handleSubmit up to its await.
HandleSubmit ==
  /\ route = "/generate-plan"
  /\ generator.activeStep = LastStep /\ isStepValid /\ ~generator.loading
  /\ Send("BusinessPlanGenerator.handleSubmit",
          [views EXCEPT !.generator.loading = TRUE], views, <<"toast.error">>)

\* handleSubmit after its await.
\*   success: toast.success; navigate(`/analyze/${proposal_id}`)
\*   finally setLoading(false)
submitFx(resp) ==
  IF resp.status = 200 THEN <<"toast.success", NavFx("/analyze")>>
  ELSE IF resp.status = 401 THEN SessionExpiredFx
  ELSE <<"toast.error">>

SubmitResponse(req, resp) ==
  /\ req.call = "BusinessPlanGenerator.handleSubmit"
  /\ Settle(req, resp, submitFx(resp),
            [views EXCEPT !.generator.loading = FALSE], {}, redirects)

----
\* Specifications

\* The Auth Context's operations, as the login and register pages and the
\* navigation bar invoke them.
AuthNext ==
  \/ Hydrate
  \/ LoginCall
  \/ \E resp \in AuthResponses : LoginResponse(resp)
  \/ RegisterCall
  \/ \E resp \in AuthResponses : RegisterResponse(resp)
  \/ NavbarLogout

\* The session as a feature view sees it change: hydration, login, logout.
SessionNext ==
  \/ Hydrate
  \/ LoginCall
  \/ \E resp \in AuthResponses : LoginResponse(resp)
  \/ NavbarLogout

\* Page loads and navigation among the locations R.
Browse(R) ==
  \/ \E r \in R : Reload(r)
  \/ \E r \in R : UserNavigate(r)

DashboardNext ==
  \/ \E req \in BagToSet(inflight), resp \in ListResponses \cup ErrorResponses :
       FetchProposalsResponse(req, resp)
  \/ DashboardDownload
  \/ \E req \in BagToSet(inflight), resp \in OkResponses \cup ErrorResponses :
       DashboardDownloadResponse(req, resp)

UploadNext ==
  \/ OnDrop
  \/ ProgressTick
  \/ OrphanTick
  \/ \E p \in TransportPercents : OnUploadProgress(p)
  \/ \E req \in BagToSet(inflight), resp \in OkResponses \cup ErrorResponses :
       OnDropResponse(req, resp)
  \/ RedirectFire

AnalysisNext ==
  \/ \E req \in BagToSet(inflight), resp \in ListResponses \cup ErrorResponses :
       AnalysisFetchResponse(req, resp)
  \/ \E req \in BagToSet(inflight), resp \in OkResponses \cup ErrorResponses :
       ContentResponse(req, resp)
  \/ Analyze
  \/ \E req \in BagToSet(inflight), resp \in OkResponses \cup ErrorResponses :
       AnalyzeResponse(req, resp)
  \/ AnalysisDownload
  \/ \E req \in BagToSet(inflight), resp \in OkResponses \cup ErrorResponses :
       AnalysisDownloadResponse(req, resp)

FundingNext ==
  \/ \E req \in BagToSet(inflight), resp \in OkResponses \cup ErrorResponses :
       RecommendationsResponse(req, resp)
  \/ \E req \in BagToSet(inflight), resp \in ListResponses \cup ErrorResponses :
       FundingProposalResponse(req, resp)
  \/ Search
  \/ \E req \in BagToSet(inflight), resp \in OkResponses \cup ErrorResponses :
       SearchResponse(req, resp)

GeneratorNext ==
  \/ \E f \in Fields, value \in {"", "x"} : HandleChange(f, value)
  \/ HandleNext
  \/ HandleBack
  \/ HandleSubmit
  \/ \E req \in BagToSet(inflight), resp \in OkResponses \cup ErrorResponses :
       SubmitResponse(req, resp)

\* The whole application.
Next ==
  \/ AuthNext
  \/ Browse(Routes)
  \/ DashboardNext
  \/ UploadNext
  \/ AnalysisNext
  \/ FundingNext
  \/ GeneratorNext

Spec == Init /\ [][Next]_vars

\* The Auth Context with the login and register pages and the Dashboard (the
\* view the application opens on) as its clients.
AuthRoutes == {"/login", "/register", "/dashboard"}
InitAuth == Init /\ route \in AuthRoutes
NextAuth == AuthNext \/ Browse(AuthRoutes) \/ DashboardNext
SpecAuth == InitAuth /\ [][NextAuth]_vars
\* React runs a mounted component's effect: hydration is not postponed for ever.
SpecAuthFair == SpecAuth /\ WF_vars(Hydrate)

\* The upload page and the session it runs under.
UploadRoutes == {"/login", "/upload-proposal"}
InitUpload == Init /\ route \in UploadRoutes
NextUpload == SessionNext \/ Browse(UploadRoutes) \/ UploadNext
SpecUpload == InitUpload /\ [][NextUpload]_vars

\* The analysis page, reached from the Dashboard, and the session it runs under.
AnalysisRoutes == {"/login", "/dashboard", "/analyze"}
InitAnalysis == Init /\ route \in AnalysisRoutes
NextAnalysis == SessionNext \/ Browse(AnalysisRoutes) \/ DashboardNext \/ AnalysisNext
SpecAnalysis == InitAnalysis /\ [][NextAnalysis]_vars

\* The funding page, reached from the Dashboard, and the session it runs under.
FundingRoutes == {"/login", "/dashboard", "/funding"}
InitFunding == Init /\ route \in FundingRoutes
NextFunding == SessionNext \/ Browse(FundingRoutes) \/ DashboardNext \/ FundingNext
SpecFunding == InitFunding /\ [][NextFunding]_vars

\* The business-plan wizard and the session it runs under.
GeneratorRoutes == {"/login", "/generate-plan"}
InitGenerator == Init /\ route \in GeneratorRoutes
NextGenerator == SessionNext \/ Browse(GeneratorRoutes) \/ GeneratorNext
SpecGenerator == InitGenerator /\ [][NextGenerator]_vars

\* The four views that keep a busy flag, under a session hydrated from the
\* cookie and ended by the navigation bar or by a 401.
BusyRoutes == {"/login", "/dashboard", "/generate-plan", "/analyze", "/funding"}
InitBusy == Init /\ route \in BusyRoutes
NextBusy ==
  \/ Hydrate
  \/ NavbarLogout
  \/ \E r \in BusyRoutes : UserNavigate(r)
  \/ DashboardNext
  \/ AnalysisNext
  \/ FundingNext
  \/ GeneratorNext
SpecBusy == InitBusy /\ [][NextBusy]_vars


\* The five views under a session hydrated from the cookie and ended by the
\* navigation bar or by a 401.
InitViews == Init
NextViews == NextBusy \/ UserNavigate("/upload-proposal") \/ UploadNext
SpecViews == InitViews /\ [][NextViews]_vars

----
\* Properties

\* The mounted upload view has a request out.
UploadInFlight ==
  \E req \in BagToSet(inflight) : req.call = "ProposalUpload.onDrop" /\ req.live

\* C1: every response with HTTP 401 that a feature-view handler receives makes
\* exactly one error notification, then logout(), then navigate('/login'), in
\* that order, whatever the response body.
C1_Every401EndsTheSession ==
  lastOp.status = 401 /\ lastOp.op \notin {"login", "register"}
    => lastOp.fx = SessionExpiredFx

\* C2: right after login returns {success: true} the in-memory token is
\* non-null and the default Authorization header is 'Bearer ' + that token.
C2_LoginSuccessSetsToken ==
  lastOp.op = "login" /\ lastOp.success
    => Present(token) /\ header = Bearer(token)

\* C3: after logout() the token and the user are null, the cookie is removed
\* and the default Authorization header is absent.
C3_LogoutClearsSession ==
  Includes(lastOp.fx, "logout")
    => token = Null /\ user = Null /\ cookie = Absent /\ header = Absent

\* C3 witness: the navigation bar's logout has run on an authenticated session.
C3_Witness == lastOp.op = "logout" /\ Includes(lastOp.fx, "logout") /\ route = "/login"

C5_UserOnlyWithToken == Present(user) => Present(token)

C7_ProgressNeverDecreases ==
  [][ /\ (UploadInFlight /\ UploadInFlight'
            => upload'.uploadProgress >= upload.uploadProgress)
      /\ (UploadInFlight /\ lastOp'.op = "ProposalUpload.onDrop" /\ lastOp'.status = 200
            => upload'.uploadProgress = 100) ]_vars

\* C8: while the upload request has not completed the progress percentage
\* never exceeds 90.
C8_CappedAt90UntilComplete == UploadInFlight => upload.uploadProgress <= 90

\* C9: login resolves to {success: true, user} or to {success: false, error}
\* with a non-empty error string, for every backend outcome.
C9_LoginResultNormalised ==
  lastOp.op = "login"
    => \/ lastOp.success /\ lastOp.error = Undefined
       \/ ~lastOp.success /\ Truthy(lastOp.error)

\* C9 witness: a 200 response with no body, normalised into a failure.
C9_Witness ==
  lastOp.op = "login" /\ lastOp.status = 200 /\ ~lastOp.success
    /\ lastOp.error = "Login failed"

\* C10: a login or register that returns {success: false} leaves the token,
\* the user, the cookie and the default Authorization header as they were.
C10_FailureChangesNothing ==
  [][ lastOp'.op \in {"login", "register"} /\ ~lastOp'.success
        => UNCHANGED session ]_vars

\* C10 witness: a register call has failed on a session that is authenticated.
C10_Witness ==
  lastOp.op = "register" /\ ~lastOp.success /\ Present(token) /\ cookie = token

\* The session is fully cleared: what logout() leaves behind.
LoggedOut == token = Null /\ user = Null /\ cookie = Absent /\ header = Absent

\* C11: logout() is idempotent: called in an Anonymous state (token null,
\* which is the state an earlier logout() left) it leaves the token, the user,
\* the cookie and the default header as they are, so two calls in a row end
\* where one call ends.
C11_LogoutIdempotent ==
  [][ Includes(lastOp'.fx, "logout") /\ token = Null
        => UNCHANGED session /\ LoggedOut' ]_vars

\* C11 witness: a view's 401 branch has called logout() on a session that an
\* earlier logout() had already cleared.
C11_Witness ==
  /\ lastOp.status = 401 /\ Includes(lastOp.fx, "logout")
  /\ lastOp.was = Null /\ LoggedOut

\* C12: the hydration effect runs once per mount (only while loading is still
\* true, and it is the only step that ends loading); in that step loading
\* becomes false whether or not a cookie was found, and a persisted token is
\* copied into the in-memory token and the default header in the same step;
\* every mount reaches loading = false.
C12_HydrationOnMount ==
  /\ [][ /\ (lastOp'.op = "hydrate" => loading /\ ~loading')
         /\ (loading /\ ~loading' => lastOp'.op = "hydrate")
         /\ (loading /\ ~loading' /\ cookie # Absent
               => token' = cookie /\ header' = Bearer(cookie)) ]_vars
  /\ (loading ~> ~loading)

\* C12 witness: hydration has ended with the token and the header taken from
\* the persisted cookie.
C12_Witness ==
  /\ lastOp.op = "hydrate" /\ ~loading
  /\ cookie \in BackendTokens /\ token = cookie /\ header = Bearer(cookie)

\* C13: within one page load the in-memory token goes from absent to present
\* only by hydration or by a login/register that returned success, from
\* present to absent only by a block that called logout(), and is changed by
\* no other block.
C13_TwoStateMachine ==
  [][ lastOp'.op # "init" =>
        /\ (~Present(token) /\ Present(token')
              => \/ lastOp'.op = "hydrate"
                 \/ lastOp'.op \in {"login", "register"} /\ lastOp'.success)
        /\ (Present(token) /\ ~Present(token')
              => Includes(lastOp'.fx, "logout"))
        /\ (token' # token
              => \/ lastOp'.op \in {"hydrate", "login", "register"}
                 \/ Includes(lastOp'.fx, "logout")) ]_vars

\* C14: a navigation to a protected route shows that route when the in-memory
\* token is present and /login otherwise, a navigation to a public route shows
\* it, and applying the guard leaves the token, the user, the cookie and the
\* header unchanged; a protected view is never shown without a token.
C14_ProtectedRoutePure ==
  [][ /\ (lastOp'.op = "navigate" =>
            /\ UNCHANGED session
            /\ route' = IF Target(lastOp'.fx) \in Protected /\ ~Present(token)
                        THEN "/login" ELSE Target(lastOp'.fx))
      /\ (~loading' /\ route' \in Protected => Present(token')) ]_vars

\* C14 witness: an anonymous visitor asked for the Dashboard and was sent to
\* /login.
C14_Witness ==
  /\ lastOp.op = "navigate" /\ lastOp.fx = <<NavFx("/dashboard")>>
  /\ ~Present(token) /\ route = "/login"

\* The requests of handler q.call carrying token q.tok that are out, whether
\* or not the instance that sent them is still mounted.
Out(reqs, q) ==
  CopiesIn([q EXCEPT !.live = TRUE], reqs) + CopiesIn([q EXCEPT !.live = FALSE], reqs)

\* A request q that this step has sent.
Issued(q) == BagIn(q, inflight') /\ Out(inflight', q) > Out(inflight, q)

\* C15: every request a feature view sends carries a token that is present
\* and is the session's in-memory token at the moment the request is sent,
\* also when the session changed while an earlier request of the same handler
\* was awaiting its response.
C15_RequestCarriesCurrentToken ==
  [][ \A q \in BagToSet(inflight') :
        Issued(q) => Present(q.tok) /\ q.tok = token' ]_vars

\* The number of requests of the mounted view that await their response.
LiveRequests ==
  LET L == { q \in BagToSet(inflight) : q.live } IN
  BagCardinality([q \in L |-> CopiesIn(q, inflight)])

\* C16: at any time the mounted feature view has at most one of its own
\* backend requests in flight.
C16_OneRequestPerView == LiveRequests <= 1

\* C17: when a feature view's request fails with anything but a 401 (a
\* network failure or another HTTP error) the handler makes exactly one error
\* notification and nothing else: no logout(), no navigation, and the token,
\* the user, the cookie and the header stay as they were.
C17_OtherErrorsOnlyNotify ==
  [][ lastOp'.status \in {0, 500} /\ lastOp'.op \notin {"login", "register"}
        => /\ lastOp'.fx = <<"toast.error">>
           /\ UNCHANGED session
           /\ route' = route ]_vars

C20_ColdStartKeepsRoute ==
  [][ loading /\ ~loading' /\ cookie \in BackendTokens /\ route \in Protected
        => route' = route ]_vars

\* C21: when the block that follows a logout() is the continuation of a login
\* or register request (one that was therefore already in flight when
\* logout() ran), the session is still Anonymous after it: token null, cookie
\* absent, header absent.
C21_LogoutOutlivesPendingLogin ==
  [][ Includes(lastOp.fx, "logout") /\ lastOp'.op \in {"login", "register"}
        => LoggedOut' ]_vars

\* The upload view as it is before any file is dropped.
UploadIdle ==
  ~upload.uploading /\ upload.uploadedFile = Null /\ upload.uploadProgress = 0

\* C22: when the mounted upload view's request fails with a network error or
\* a non-401 API error the view is idle again (uploading false, no file,
\* progress 0), and while the view is not uploading its progress stays 0 until
\* a drop starts the next upload.
C22_FailedUploadStaysIdle ==
  [][ /\ ( ( /\ UploadInFlight /\ ~UploadInFlight' /\ route' = route
             /\ lastOp'.op = "ProposalUpload.onDrop"
             /\ lastOp'.status \in {0, 500} )
           => UploadIdle' )
      /\ ( ( /\ route = "/upload-proposal" /\ route' = route
             /\ ~upload.uploading /\ ~upload'.uploading )
           => upload'.uploadProgress = 0 ) ]_vars

\* A request q that this step has settled.
Settled(q) == Out(inflight', q) < Out(inflight, q)

\* C23: a 401 for a request that was sent under another token than the one
\* the session now holds leaves the current session (token, user, cookie,
\* header) as it is.
C23_Late401SparesNewSession ==
  [][ \A q \in BagToSet(inflight) :
        ( /\ Settled(q) /\ lastOp'.status = 401 /\ lastOp'.op = q.call
          /\ Present(token) /\ q.tok # token )
        => UNCHANGED session ]_vars

\* C24: in the business-plan wizard activeStep is always 0, 1 or 2, and a
\* generate-business-plan request is sent only from step 2 with all five form
\* fields non-empty.
C24_WizardSubmitsComplete ==
  [][ /\ (route' = "/generate-plan" => generator'.activeStep \in {0, 1, 2})
      /\ \A q \in BagToSet(inflight') :
           (Issued(q) /\ q.call = "BusinessPlanGenerator.handleSubmit")
             => /\ generator.activeStep = 2
                /\ \A f \in Fields : generator.formData[f] # "" ]_vars

\* C24 witness: the wizard has sent its request from the last step.
C24_Witness ==
  /\ route = "/generate-plan" /\ generator.activeStep = 2 /\ generator.loading
  /\ lastOp.op = "BusinessPlanGenerator.handleSubmit"
  /\ \E q \in BagToSet(inflight) :
       q.call = "BusinessPlanGenerator.handleSubmit" /\ q.live

\* C25: for the proposal the Analysis view shows, whatever its status, the
\* view offers 'View Funding Recommendations' exactly when the Dashboard's
\* Funding button is enabled for a proposal of that status.
C25_FundingViewsAgree ==
  route = "/analyze" /\ ~analysis.loading /\ analysis.proposal # Null
    => ( AnalysisFundingOffered(analysis.proposal)
           <=> DashboardFundingEnabled(analysis.proposal) )

\* The mounted view awaits a request of one of the handlers in calls.
Awaiting(calls) == \E q \in BagToSet(inflight) : q.live /\ q.call \in calls

\* A busy flag is set only while the mounted view awaits a request of the
\* handler that clears the flag when it finishes.
BusyOnlyWhileAwaiting ==
  /\ route = "/dashboard" /\ dashboard.loading
       => Awaiting({"Dashboard.fetchProposals"})
  /\ route = "/analyze" /\ analysis.loading
       => Awaiting({"ProposalAnalysis.fetchProposalData"})
  /\ route = "/analyze" /\ analysis.analyzing
       => Awaiting({"ProposalAnalysis.analyzeProposal"})
  /\ route = "/funding" /\ funding.loading
       => Awaiting({"FundingRecommendations.fetchRecommendations",
                    "FundingRecommendations.fetchProposalData"})
  /\ route = "/funding" /\ funding.searching
       => Awaiting({"FundingRecommendations.searchFundersRealtime"})
  /\ route = "/generate-plan" /\ generator.loading
       => Awaiting({"BusinessPlanGenerator.handleSubmit"})

\* C26: every busy flag is cleared once the handler that set it has had its
\* request settled, whatever the outcome: on a mounted view a flag is set only
\* while its handler still awaits a request, so no view stays in its loading
\* or disabled state after the answer.
C26_BusyFlagsCleared == ~loading => BusyOnlyWhileAwaiting

\* C26 witness: an analysis request has failed with a non-401 error and the
\* view it belongs to is no longer analyzing.
C26_Witness ==
  /\ lastOp.op = "ProposalAnalysis.analyzeProposal" /\ lastOp.status = 500
  /\ route = "/analyze" /\ ~analysis.analyzing /\ analysis.proposal # Null

\* The handlers whose control is disabled by a busy flag.
GuardedCalls == {"ProposalUpload.onDrop", "BusinessPlanGenerator.handleSubmit",
                 "ProposalAnalysis.analyzeProposal",
                 "FundingRecommendations.searchFundersRealtime"}

\* The number of requests of handler call that the mounted view awaits.
LiveOf(call) ==
  LET L == { q \in BagToSet(inflight) : q.live /\ q.call = call } IN
  BagCardinality([q \in L |-> CopiesIn(q, inflight)])

\* C27: the mounted view never awaits two requests of the same guarded kind
\* (upload, generate-business-plan, analyze, funder search), and such a
\* request is sent only while the flag that guards it is false.
C27_OneGuardedRequest ==
  [][ /\ \A c \in GuardedCalls : LiveOf(c)' <= 1
      /\ \A q \in BagToSet(inflight') :
           (Issued(q) /\ q.call \in GuardedCalls) =>
             /\ LiveOf(q.call) = 0
             /\ q.call = "ProposalUpload.onDrop" => ~upload.uploading
             /\ q.call = "BusinessPlanGenerator.handleSubmit" => ~generator.loading
             /\ q.call = "ProposalAnalysis.analyzeProposal" => ~analysis.analyzing
             /\ q.call = "FundingRecommendations.searchFundersRealtime"
                  => ~funding.searching ]_vars

\* C27 witness: a funder search is awaited and the Search button is disabled.
C27_Witness ==
  /\ route = "/funding" /\ funding.searching
  /\ LiveOf("FundingRecommendations.searchFundersRealtime") = 1

\* C28: when the mounted upload view's request succeeds the view shows its
\* 'uploaded' state before the redirect: uploading is false, the file is still
\* set and the progress is 100.
C28_UploadedPanelShown ==
  [][ ( /\ UploadInFlight /\ ~UploadInFlight'
        /\ lastOp'.op = "ProposalUpload.onDrop" /\ lastOp'.status = 200
        /\ route' = "/upload-proposal" )
      => ( /\ ~upload'.uploading
           /\ upload'.uploadedFile # Null
           /\ upload'.uploadProgress = 100 ) ]_vars

====
